---------------------------- MODULE Spec2Model ----------------------------
(***************************************************************************)
(* A model of the LightBnB data-access layer (server/database.js).  The    *)
(* repository holds three copies of the file:                              *)
(*   "database.js" : src/LightBnB_WebApp-master/server/database.js         *)
(*   "part_000"    : src/unnamed/part_000                                  *)
(*   "part_001"    : src/unnamed/part_001                                  *)
(* The user functions are the same in all three; getAllReservations,       *)
(* getAllProperties and addProperty differ, and the variable `copy` says   *)
(* which copy the process has loaded.                                      *)
(*                                                                         *)
(* Every exported function is a promise chain                              *)
(*     pool.query(...).then(onRows).catch(log)                             *)
(* and is modelled by two steps: the call (the synchronous part, which     *)
(* builds the query and hands it to the pool) and the settle step (the     *)
(* database runs the query, or the driver fails it, and the callbacks      *)
(* run).  Calls of different requests interleave between the two.          *)
(***************************************************************************)
EXTENDS Integers, Sequences, FiniteSets, TLC

VARIABLES
    copy,           \* which copy of database.js is loaded
    users,          \* table users: a set of rows
    userSeq,        \* the serial behind users.id
    dbProperties,   \* table properties: a set of rows
    propSeq,        \* the serial behind properties.id
    reviews,        \* table property_reviews: a set of rows
    reservations,   \* table reservations: a set of rows
    properties,     \* the in-memory object `properties`: key -> object reference
    heap,           \* JavaScript objects: reference -> its <<key, value>> pairs
    seeded,         \* the number of properties properties.json held (history)
    calls,          \* the calls made so far: call number -> record
    console,        \* what console.log has printed, in order
    added           \* the in-memory addProperty calls, in order (history)

vars == <<copy, users, userSeq, dbProperties, propSeq, reviews, reservations,
          properties, heap, seeded, calls, console, added>>

----------------------------------------------------------------------------
(* Bounds of the model.                                                    *)

MaxCalls == 2
MaxKeys == 3
MaxAdds == 3
MaxSeed == 2

(* Program constants.                                                      *)

DefaultLimit == 10
StubLimit == 2
InsertArity == 14

Copies == {"database.js", "part_000", "part_001"}

(* The calls of a run are numbered; Spec makes MaxCalls of them, SpecProps *)
(* MaxAdds.                                                                *)
CallIds == 1..(IF MaxCalls > MaxAdds THEN MaxCalls ELSE MaxAdds)

----------------------------------------------------------------------------
(* JavaScript values.  A value that may be of several types carries its    *)
(* type, as typeof does.                                                   *)

Undefined == [t |-> "undefined"]
Null == [t |-> "null"]
Str(s) == [t |-> "string", s |-> s]
Num(n) == [t |-> "number", n |-> n]
Row(r) == [t |-> "row", row |-> r]
Rows(rs) == [t |-> "rows", rows |-> rs]
Ref(o) == [t |-> "object", ref |-> o]
Err(m) == [t |-> "error", message |-> m]

(* Promises: a settled promise is fulfilled with a value or rejected with  *)
(* an error.                                                               *)

Fulfilled(v) == [state |-> "fulfilled", value |-> v]
Rejected(e) == [state |-> "rejected", value |-> e]
Pending == [state |-> "pending", value |-> Undefined]

(* Mutation of CatchLog: the chain without its .catch, the rejection       *)
(* reaching the caller.                                                    *)
CatchLogMissing(p) == p

(* p.catch((err) => { console.log(err.message); }): the handler returns    *)
(* nothing, so a rejection becomes a fulfilment with undefined.            *)

CatchLog(p) == IF p.state = "rejected" THEN Fulfilled(Undefined) ELSE p

(* What that .catch prints.                                                *)

Logged(p) == IF p.state = "rejected" THEN <<p.value.message>> ELSE <<>>

(* All orders of a finite set of rows: a SELECT without ORDER BY may       *)
(* return its rows in any order.                                           *)

Orders(S) ==
    {q \in [1..Cardinality(S) -> S] : \A i, j \in 1..Cardinality(S) : i # j => q[i] # q[j]}

(* The driver's answer to a query: the rows, or a failure.                 *)

DriverError == Err("driver failure")

----------------------------------------------------------------------------
(* Calls.  A call record holds the function, its argument, where the call  *)
(* is (idle, waiting for a query, done) and the promise the caller holds.  *)
(* Two history fields serve the properties: ins is the id the database     *)
(* assigned to the row this call inserted (0: none), failed whether the    *)
(* driver failed a query of this call.                                     *)

NoCall ==
    [fn |-> "none", arg |-> Undefined, pc |-> "idle", query |-> Undefined,
     out |-> Pending, ins |-> 0, failed |-> FALSE]

(* Call c may start: it is idle and the calls before it have started.      *)

CanStart(c) ==
    /\ calls[c].pc = "idle"
    /\ \A d \in CallIds : d < c => calls[d].pc # "idle"

Start(c, fn, arg, pc, query) ==
    calls' = [calls EXCEPT ![c] = [NoCall EXCEPT !.fn = fn, !.arg = arg,
                                                 !.pc = pc, !.query = query]]

(* The call's promise settles with p; log is what its .catch printed.      *)

Settle(c, p, drv) ==
    /\ calls' = [calls EXCEPT ![c].pc = "done", ![c].out = CatchLog(p),
                              ![c].failed = (drv.state = "rejected")]
    /\ console' = console \o Logged(p)

UNCHANGED_Db == UNCHANGED <<users, userSeq, dbProperties, propSeq, reviews, reservations>>
UNCHANGED_Mem == UNCHANGED <<properties, heap, seeded, added>>

----------------------------------------------------------------------------
(* Users.                                                                  *)

Emails == {"a@x.com", "b@x.com"}
Names == {"Ann"}
Passwords == {"pw"}
UserInputs == [name : Names, email : Emails, password : Passwords]

(* SELECT * FROM users WHERE email = $1                                    *)
UsersWithEmail(email) == {u \in users : u.email = email}

(* SELECT * FROM users WHERE id = $1                                       *)
UsersWithId(id) == {u \in users : u.id = id}

(* What the driver may answer to a SELECT whose rows are the set S.        *)
SelectAnswers(S) == {Rejected(DriverError)} \cup {Fulfilled(Rows(q)) : q \in Orders(S)}

(* Mutation of OneRowOrNull: the test for no rows left out.                *)
OneRowOrNullNoTest(p) ==
    IF p.state # "fulfilled" THEN p
    ELSE IF Len(p.value.rows) = 0 THEN Fulfilled(Undefined)
    ELSE Fulfilled(Row(p.value.rows[1]))

(* .then((result) => { if (result.rows.length === 0) return null;          *)
(*                     return result.rows[0]; })                           *)
OneRowOrNull(p) ==
    IF p.state # "fulfilled" THEN p
    ELSE IF Len(p.value.rows) = 0 THEN Fulfilled(Null)
    ELSE Fulfilled(Row(p.value.rows[1]))

getUserWithEmail(c, email) ==
    /\ CanStart(c)
    /\ Start(c, "getUserWithEmail", email, "query", <<email>>)
    /\ UNCHANGED <<copy, console>> /\ UNCHANGED_Db /\ UNCHANGED_Mem

getUserWithEmailSettle(c) ==
    /\ calls[c].fn = "getUserWithEmail" /\ calls[c].pc = "query"
    /\ \E p \in SelectAnswers(UsersWithEmail(calls[c].query[1])) :
          Settle(c, OneRowOrNull(p), p)
    /\ UNCHANGED copy /\ UNCHANGED_Db /\ UNCHANGED_Mem

getUserWithId(c, id) ==
    /\ CanStart(c)
    /\ Start(c, "getUserWithId", id, "query", <<id>>)
    /\ UNCHANGED <<copy, console>> /\ UNCHANGED_Db /\ UNCHANGED_Mem

getUserWithIdSettle(c) ==
    /\ calls[c].fn = "getUserWithId" /\ calls[c].pc = "query"
    /\ \E p \in SelectAnswers(UsersWithId(calls[c].query[1])) :
          Settle(c, OneRowOrNull(p), p)
    /\ UNCHANGED copy /\ UNCHANGED_Db /\ UNCHANGED_Mem

(* addUser: the INSERT, and in its .then the SELECT by email.              *)

addUser(c, user) ==
    /\ CanStart(c)
    /\ Start(c, "addUser", user, "insert", <<user.name, user.email, user.password>>)
    /\ UNCHANGED <<copy, console>> /\ UNCHANGED_Db /\ UNCHANGED_Mem

(* INSERT INTO users (name, email, password) VALUES ($1, $2, $3): the row  *)
(* gets the next id of the serial.  Nothing in the repository makes email  *)
(* unique.  When the INSERT fails the outer .catch logs and the promise    *)
(* is fulfilled with undefined; when it succeeds the .then issues the      *)
(* SELECT with valuesGet = [user.email].                                   *)
addUserInsertSettle(c) ==
    /\ calls[c].fn = "addUser" /\ calls[c].pc = "insert"
    /\ \/ /\ users' = users \cup {[id |-> userSeq + 1, name |-> calls[c].query[1],
                                   email |-> calls[c].query[2],
                                   password |-> calls[c].query[3]]}
          /\ userSeq' = userSeq + 1
          /\ calls' = [calls EXCEPT ![c].pc = "select", ![c].ins = userSeq + 1,
                                    ![c].query = <<calls[c].arg.email>>]
          /\ UNCHANGED console
       \/ /\ Settle(c, Rejected(DriverError), Rejected(DriverError))
          /\ UNCHANGED <<users, userSeq>>
    /\ UNCHANGED <<copy, dbProperties, propSeq, reviews, reservations>> /\ UNCHANGED_Mem

(* .then((newUser) => { return newUser.rows[0]; }): rows[0] of no rows is  *)
(* undefined.                                                              *)
FirstRow(p) ==
    IF p.state # "fulfilled" THEN p
    ELSE IF Len(p.value.rows) = 0 THEN Fulfilled(Undefined)
    ELSE Fulfilled(Row(p.value.rows[1]))

(* The inner chain has its own .catch; the outer .then returns the inner   *)
(* promise, which is never rejected, so the outer .catch does not run.     *)
addUserSelectSettle(c) ==
    /\ calls[c].fn = "addUser" /\ calls[c].pc = "select"
    /\ \E p \in SelectAnswers(UsersWithEmail(calls[c].query[1])) :
          Settle(c, FirstRow(p), p)
    /\ UNCHANGED copy /\ UNCHANGED_Db /\ UNCHANGED_Mem

----------------------------------------------------------------------------
(* The properties table and its reviews.                                   *)

(* The columns of the INSERT of addProperty, in the order its comment      *)
(* gives them.                                                             *)
Columns ==
    <<"title", "description", "number_of_bedrooms", "number_of_bathrooms",
      "parking_spaces", "cost_per_night", "thumbnail_photo_url", "cover_photo_url",
      "street", "country", "city", "province", "post_code", "owner_id">>

ColumnSet == {Columns[i] : i \in 1..Len(Columns)}

(* The integer columns ("Replace blank integer values"), owner_id too.     *)
IntegerColumns ==
    {"number_of_bedrooms", "number_of_bathrooms", "parking_spaces", "cost_per_night",
     "owner_id"}

(* Number(s) of the numeric strings a form sends.                          *)
Numerals == {"0", "1", "2", "3", "4", "5", "7"}
ToNumber(s) ==
    CASE s = "" -> 0 [] s = "0" -> 0 [] s = "1" -> 1 [] s = "2" -> 2 [] s = "3" -> 3
      [] s = "4" -> 4 [] s = "5" -> 5 [] s = "7" -> 7

(* A query parameter as the integer the database reads it as.              *)
IsSqlInt(v) == v.t = "number" \/ (v.t = "string" /\ v.s \in Numerals)
SqlInt(v) == IF v.t = "number" THEN v.n ELSE ToNumber(v.s)

(* A row of properties: a function of "id" and the columns.                *)
PropertyRow(id, city, cost) ==
    [col \in ColumnSet \cup {"id"} |->
        CASE col = "id" -> id
          [] col = "city" -> city
          [] col = "cost_per_night" -> cost
          [] col \in IntegerColumns -> 1
          [] OTHER -> "x"]

RECURSIVE SumRatings(_)
SumRatings(S) ==
    IF S = {} THEN 0
    ELSE LET r == CHOOSE x \in S : TRUE IN r.rating + SumRatings(S \ {r})

(* AVG(rating) of a non-empty set of review rows, as the fraction sum/n.   *)
Avg(S) == [sum |-> SumRatings(S), n |-> Cardinality(S)]
SameAvg(a, b) == a.sum * b.n = b.sum * a.n

----------------------------------------------------------------------------
(* getAllProperties (part_000, part_001): the WHERE clause built from the  *)
(* options.  An object is its <<key, value>> pairs in the order for..in    *)
(* visits the keys; for..in over null visits nothing.  A condition         *)
(* 'properties.city = $' + count is the record [col, op, ph |-> count].    *)

Obj(props) == [t |-> "object", props |-> props]
Props(o) == IF o.t = "object" THEN o.props ELSE <<>>

Cond(col, op, ph) == [col |-> col, op |-> op, ph |-> ph]

(* options[key] * 100                                                      *)
Times100(v) == Num((IF v.t = "number" THEN v.n ELSE ToNumber(v.s)) * 100)

(* Mutation of FilterStep: the test for '' left out, every recognised key  *)
(* pushing its condition.                                                  *)
FilterStepNoEmptyTest(kv, st) ==
    LET key == kv[1]  v == kv[2]  n == st.count
        push(val, col, op) ==
            [values |-> Append(st.values, val),
             whereClause |-> Append(st.whereClause, Cond(col, op, n)),
             count |-> n + 1]
    IN CASE key = "city" -> push(v, "properties.city", "=")
         [] key = "minimum_price_per_night" -> push(Times100(v), "properties.cost_per_night", ">=")
         [] key = "maximum_price_per_night" -> push(Times100(v), "properties.cost_per_night", "<=")
         [] key = "minimum_rating" -> push(v, "rating", ">=")
         [] OTHER -> [st EXCEPT !.count = n + 1]

(* One turn of the for..in loop: st is [values, whereClause, count].       *)
FilterStep(kv, st) ==
    LET key == kv[1]  v == kv[2]  n == st.count IN
    IF v = Str("") THEN st
    ELSE CASE key = "city" ->
                [values |-> Append(st.values, v),
                 whereClause |-> Append(st.whereClause, Cond("properties.city", "=", n)),
                 count |-> n + 1]
           [] key = "minimum_price_per_night" ->
                [values |-> Append(st.values, Times100(v)),
                 whereClause |-> Append(st.whereClause, Cond("properties.cost_per_night", ">=", n)),
                 count |-> n + 1]
           [] key = "maximum_price_per_night" ->
                [values |-> Append(st.values, Times100(v)),
                 whereClause |-> Append(st.whereClause, Cond("properties.cost_per_night", "<=", n)),
                 count |-> n + 1]
           [] key = "minimum_rating" ->
                [values |-> Append(st.values, v),
                 whereClause |-> Append(st.whereClause, Cond("rating", ">=", n)),
                 count |-> n + 1]
           [] OTHER -> [st EXCEPT !.count = n + 1]

RECURSIVE FilterLoop(_, _, _)
FilterLoop(options, i, st) ==
    IF i > Len(options) THEN st
    ELSE FilterLoop(options, i + 1, FilterStep(options[i], st))

(* limit = 10 when the argument is omitted.                                *)
LimitOr(limit, default) == IF limit = Undefined THEN Num(default) ELSE limit

(* The query getAllProperties hands to the pool: the text (its WHERE       *)
(* clause, empty when there is no condition) and the values.               *)
SearchQuery(options, limit) ==
    LET st == FilterLoop(Props(options), 1,
                         [values |-> <<LimitOr(limit, DefaultLimit)>>,
                          whereClause |-> <<>>, count |-> 2])
    IN [sql |-> "search", where |-> st.whereClause, values |-> st.values]

(* getAllProperties (database.js): SELECT * FROM properties LIMIT $1, the  *)
(* options unused.                                                         *)
PlainQuery(options, limit) ==
    [sql |-> "plain", where |-> <<>>, values |-> <<LimitOr(limit, DefaultLimit)>>]

PropertiesQuery(options, limit) ==
    IF copy = "database.js" THEN PlainQuery(options, limit)
    ELSE SearchQuery(options, limit)

(* The rows of properties JOIN property_reviews that pass the WHERE        *)
(* clause: pairs <<property, review>>.  $k is values[k].                   *)
CondHolds(cond, p, r, values) ==
    LET v == values[cond.ph] IN
    CASE cond.col = "properties.city" -> p["city"] = v.s
      [] cond.col = "properties.cost_per_night" /\ cond.op = ">=" -> p["cost_per_night"] >= SqlInt(v)
      [] cond.col = "properties.cost_per_night" /\ cond.op = "<=" -> p["cost_per_night"] <= SqlInt(v)
      [] cond.col = "rating" -> r.rating >= SqlInt(v)

Joined(q) ==
    {pr \in dbProperties \X reviews :
        /\ pr[1]["id"] = pr[2].property_id
        /\ \A i \in 1..Len(q.where) : CondHolds(q.where[i], pr[1], pr[2], q.values)}

(* GROUP BY properties.id with AVG(rating): one row per property that has  *)
(* a joined row left, the average taken over the joined rows left.         *)
SearchRow(p, q) ==
    [property |-> p,
     average_rating |-> Avg({pr[2] : pr \in {x \in Joined(q) : x[1] = p}})]

SearchRows(q) == {SearchRow(p, q) : p \in {pr[1] : pr \in Joined(q)}}

(* SELECT * FROM properties                                                *)
PlainRows == {[property |-> p] : p \in dbProperties}

(* The statement needs the parameters $1..$max it names, all of them       *)
(* named; the pool sends Len(values) of them.                              *)
Placeholders(q) == {1} \cup {q.where[i].ph : i \in 1..Len(q.where)}
BindOk(q) == Placeholders(q) = 1..Len(q.values)

(* LIMIT $1 without ORDER BY: any $1 of the rows, in any order.            *)
Limited(S, limit) ==
    {T \in SUBSET S : Cardinality(T) = IF Cardinality(S) < limit THEN Cardinality(S) ELSE limit}

PropertiesAnswers(q) ==
    {Rejected(DriverError)} \cup
    IF ~BindOk(q) THEN {}
    ELSE UNION {{Fulfilled(Rows(s)) : s \in Orders(T)} :
                   T \in Limited(IF q.sql = "plain" THEN PlainRows ELSE SearchRows(q),
                                 SqlInt(q.values[1]))}

(* .then((result) => { return result.rows; })                              *)
AllRows(p) == p

getAllProperties(c, options, limit) ==
    /\ CanStart(c)
    /\ Start(c, "getAllProperties", [options |-> options, limit |-> limit], "query",
             PropertiesQuery(options, limit))
    /\ UNCHANGED <<copy, console>> /\ UNCHANGED_Db /\ UNCHANGED_Mem

getAllPropertiesSettle(c) ==
    /\ calls[c].fn \in {"getAllProperties", "getAllReservations"}
    /\ calls[c].pc = "query"
    /\ calls[c].query.sql \in {"plain", "search"}
    /\ \E p \in PropertiesAnswers(calls[c].query) : Settle(c, AllRows(p), p)
    /\ UNCHANGED copy /\ UNCHANGED_Db /\ UNCHANGED_Mem

----------------------------------------------------------------------------
(* getAllReservations.                                                     *)

(* FROM reservations JOIN properties JOIN property_reviews                 *)
(* WHERE reservations.guest_id = $1 GROUP BY properties.id, reservations.id *)
(* : one row per reservation of the guest whose property has a review,     *)
(* with the average of that property's ratings.                            *)
ReservationRows(q) ==
    {[id |-> res.id, property |-> p, start_date |-> res.start_date,
      average_rating |-> Avg({r \in reviews : r.property_id = p["id"]})] :
        <<res, p>> \in {rp \in reservations \X dbProperties :
                          /\ rp[1].property_id = rp[2]["id"]
                          /\ rp[1].guest_id = SqlInt(q.values[1])
                          /\ \E r \in reviews : r.property_id = rp[2]["id"]}}

(* ORDER BY reservations.start_date: equal dates in any order.             *)
OrderedByStartDate(S) ==
    {s \in Orders(S) : \A i, j \in 1..Len(s) : i < j => s[i].start_date <= s[j].start_date}

(* LIMIT $2                                                                *)
FirstN(s, n) == SubSeq(s, 1, IF Len(s) < n THEN Len(s) ELSE n)

ReservationsAnswers(q) ==
    {Rejected(DriverError)} \cup
    {Fulfilled(Rows(FirstN(s, SqlInt(q.values[2])))) : s \in OrderedByStartDate(ReservationRows(q))}

(* .then((result) => { if (result.rows.length === 0) return null;          *)
(*                     return result.rows; })                              *)
RowsOrNull(p) ==
    IF p.state # "fulfilled" THEN p
    ELSE IF Len(p.value.rows) = 0 THEN Fulfilled(Null)
    ELSE p

(* database.js: return getAllProperties(null, 2), whatever the arguments.  *)
ReservationsQuery(guest_id, limit) ==
    IF copy = "database.js" THEN PropertiesQuery(Null, Num(StubLimit))
    ELSE [sql |-> "reservations", where |-> <<>>,
          values |-> <<guest_id, LimitOr(limit, DefaultLimit)>>]

getAllReservations(c, guest_id, limit) ==
    /\ CanStart(c)
    /\ Start(c, "getAllReservations", [guest_id |-> guest_id, limit |-> limit], "query",
             ReservationsQuery(guest_id, limit))
    /\ UNCHANGED <<copy, console>> /\ UNCHANGED_Db /\ UNCHANGED_Mem

getAllReservationsSettle(c) ==
    /\ calls[c].fn = "getAllReservations" /\ calls[c].pc = "query"
    /\ calls[c].query.sql = "reservations"
    /\ \E p \in ReservationsAnswers(calls[c].query) : Settle(c, RowsOrNull(p), p)
    /\ UNCHANGED copy /\ UNCHANGED_Db /\ UNCHANGED_Mem

----------------------------------------------------------------------------
(* addProperty.  Its argument is a reference to an object of the heap;     *)
(* heap[o] is the object's <<key, value>> pairs in insertion order.        *)

Keys(props) == [i \in 1..Len(props) |-> props[i][1]]
Values(props) == [i \in 1..Len(props) |-> props[i][2]]

HasKey(props, k) == \E i \in 1..Len(props) : props[i][1] = k
Get(props, k) == props[CHOOSE i \in 1..Len(props) : props[i][1] = k][2]

(* object[k] = v: in place when the key exists, appended otherwise.        *)
SetProp(props, k, v) ==
    IF HasKey(props, k)
    THEN [i \in 1..Len(props) |-> IF props[i][1] = k THEN <<k, v>> ELSE props[i]]
    ELSE Append(props, <<k, v>>)

(* if (values[2] === '') values[2] = '0'; ... values[5]: by position,      *)
(* JavaScript's 2..5 being 3..6 here.                                      *)
PatchBlanks(values) ==
    [i \in 1..Len(values) |->
        IF i \in 3..6 /\ values[i] = Str("") THEN Str("0") ELSE values[i]]

(* part_001: INSERT INTO properties (<the keys>) VALUES ($1, ..., $14)     *)
(* RETURNING *                                                             *)
InsertQuery(props) ==
    [sql |-> "insert", columns |-> Keys(props),
     values |-> PatchBlanks(Values(props))]

(* The INSERT is accepted when its 14 expressions meet 14 distinct columns *)
(* of the table and every integer column is given an integer.              *)
InsertOk(q) ==
    /\ Len(q.columns) = InsertArity
    /\ \A i, j \in 1..Len(q.columns) : i # j => q.columns[i] # q.columns[j]
    /\ \A i \in 1..Len(q.columns) :
          /\ q.columns[i] \in ColumnSet
          /\ q.columns[i] \in IntegerColumns => IsSqlInt(q.values[i])

SqlText(v) == IF v.t = "string" THEN v.s ELSE ToString(v.n)

(* The row the INSERT stores, the serial giving its id.                    *)
InsertedRow(q, id) ==
    [col \in ColumnSet \cup {"id"} |->
        IF col = "id" THEN id
        ELSE LET v == q.values[CHOOSE i \in 1..Len(q.columns) : q.columns[i] = col]
             IN IF col \in IntegerColumns THEN SqlInt(v) ELSE SqlText(v)]

(* Mutation of NextPropertyId: the + 1 left out, the call taking the last  *)
(* key in use.                                                             *)
NextPropertyIdNoPlusOne == Cardinality(DOMAIN properties)

(* Object.keys(properties).length + 1                                      *)
NextPropertyId == Cardinality(DOMAIN properties) + 1

(* database.js, part_000: property.id = propertyId;                        *)
(* properties[propertyId] = property; return Promise.resolve(property).    *)
(* h is the heap as the call finds it.                                     *)
addPropertyInMemory(c, o, h) ==
    LET propertyId == NextPropertyId IN
    /\ heap' = [h EXCEPT ![o] = SetProp(@, "id", Num(propertyId))]
    /\ properties' = [k \in DOMAIN properties \cup {propertyId} |->
                         IF k = propertyId THEN o ELSE properties[k]]
    /\ added' = Append(added, [ref |-> o, id |-> propertyId])
    /\ calls' = [calls EXCEPT ![c] = [NoCall EXCEPT !.fn = "addProperty", !.arg = Ref(o),
                                                    !.pc = "done",
                                                    !.out = Fulfilled(Ref(o))]]
    /\ UNCHANGED <<copy, console, seeded>> /\ UNCHANGED_Db

(* part_001: the query goes to the pool, the object is left as it is.      *)
addPropertyInDb(c, o, h) ==
    /\ Start(c, "addProperty", Ref(o), "query", InsertQuery(h[o]))
    /\ heap' = h
    /\ UNCHANGED <<copy, console, properties, seeded, added>> /\ UNCHANGED_Db

(* The caller passes an object it made for this call.                      *)
addPropertyFresh(c, props) ==
    /\ CanStart(c)
    /\ IF copy = "part_001"
       THEN addPropertyInDb(c, Len(heap) + 1, Append(heap, props))
       ELSE addPropertyInMemory(c, Len(heap) + 1, Append(heap, props))

(* The caller passes an object it passed before (database.js and part_000 *)
(* hand it back as the result).  The objects of properties.json are not    *)
(* exported.                                                               *)
addPropertyAgain(c, o) ==
    /\ CanStart(c)
    /\ o \in DOMAIN heap /\ o > seeded
    /\ IF copy = "part_001"
       THEN addPropertyInDb(c, o, heap)
       ELSE addPropertyInMemory(c, o, heap)

(* .then((result) => { return result.rows[0]; })                           *)
addPropertySettle(c) ==
    /\ calls[c].fn = "addProperty" /\ calls[c].pc = "query"
    /\ \/ /\ InsertOk(calls[c].query)
          /\ LET row == InsertedRow(calls[c].query, propSeq + 1) IN
             /\ dbProperties' = dbProperties \cup {row}
             /\ propSeq' = propSeq + 1
             /\ calls' = [calls EXCEPT ![c].pc = "done", ![c].ins = propSeq + 1,
                                       ![c].out = CatchLog(FirstRow(Fulfilled(Rows(<<row>>))))]
             /\ UNCHANGED console
       \/ /\ Settle(c, Rejected(DriverError), Rejected(DriverError))
          /\ UNCHANGED <<dbProperties, propSeq>>
    /\ UNCHANGED <<copy, users, userSeq, reviews, reservations>> /\ UNCHANGED_Mem

----------------------------------------------------------------------------
(* The data the specifications start from and the arguments they call      *)
(* with.                                                                   *)

SeedProperties ==
    {PropertyRow(1, "Vancouver", 100), PropertyRow(2, "Toronto", 300),
     PropertyRow(3, "Vancouver", 50)}

Review(id, property_id, rating) == [id |-> id, property_id |-> property_id, rating |-> rating]
SeedReviews == {Review(1, 1, 2), Review(2, 1, 5), Review(3, 2, 4), Review(4, 3, 5)}

Reservation(id, guest_id, property_id, start_date) ==
    [id |-> id, guest_id |-> guest_id, property_id |-> property_id, start_date |-> start_date]
SeedReservations == {Reservation(1, 1, 2, 20), Reservation(2, 1, 1, 10), Reservation(3, 2, 1, 5)}

(* The form of a new property: B the fields left blank.                    *)
Blankable ==
    {"description", "number_of_bedrooms", "number_of_bathrooms", "parking_spaces",
     "cost_per_night"}

FormValue(B) ==
    [col \in ColumnSet |->
        IF col \in B THEN Str("")
        ELSE IF col = "owner_id" THEN Num(7)
        ELSE IF col \in IntegerColumns THEN Str("2")
        ELSE Str("x")]

FormObject(order, B) == [k \in 1..Len(order) |-> <<order[k], FormValue(B)[order[k]]>>]

Swapped(order, i, j) ==
    [k \in 1..Len(order) |-> IF k = i THEN order[j] ELSE IF k = j THEN order[i] ELSE order[k]]

(* The key orders tried: the order of the comment, and that order with two *)
(* keys exchanged; and the object without its owner_id.                    *)
KeyOrders ==
    {Swapped(Columns, i, j) : i, j \in 1..Len(Columns)} \cup {SubSeq(Columns, 1, Len(Columns) - 1)}

FormObjects == {FormObject(order, B) : order \in KeyOrders, B \in SUBSET Blankable}

FewFormObjects == {FormObject(Columns, {}), FormObject(Columns, {"parking_spaces"})}

(* properties.json: an object keyed 1..n, the property under key k having  *)
(* id k.                                                                   *)
JsonProperty(k) == <<<<"id", Num(k)>>, <<"title", Str("x")>>>>

(* The options of a search.                                                *)
OptionValues(key) ==
    CASE key = "city" -> {Str(""), Str("Vancouver")}
      [] key = "minimum_price_per_night" -> {Str(""), Str("1")}
      [] key = "maximum_price_per_night" -> {Str(""), Str("2")}
      [] key = "minimum_rating" -> {Str(""), Str("4")}
      [] key = "owner_id" -> {Str(""), Str("7")}

FilterKeys == {"city", "minimum_price_per_night", "maximum_price_per_night", "minimum_rating"}
OptionKeys == FilterKeys \cup {"owner_id"}

(* Objects of at most n keys, the keys distinct, in every order.           *)
OptionObjects(n) ==
    {Null} \cup
    UNION {{Obj(o) : o \in {x \in [1..k -> UNION {{<<key, v>> : v \in OptionValues(key)} : key \in OptionKeys}] :
                               \A i, j \in 1..k : i # j => x[i][1] # x[j][1]}} : k \in 0..n}

WideOptions == OptionObjects(MaxKeys)
OneKeyOptions == OptionObjects(1)

Limits == {Undefined, Num(1)}

InitWith(cp, ps, rv, rs, n) ==
    /\ copy = cp
    /\ users = {} /\ userSeq = 0
    /\ dbProperties = ps /\ propSeq = Cardinality(ps)
    /\ reviews = rv
    /\ reservations = rs
    /\ properties = [k \in 1..n |-> k]
    /\ heap = [k \in 1..n |-> JsonProperty(k)]
    /\ seeded = n
    /\ calls = [c \in CallIds |-> NoCall]
    /\ console = <<>>
    /\ added = <<>>

----------------------------------------------------------------------------
(* Spec: the functions called by concurrent requests, the driver free to   *)
(* fail any query.                                                         *)

Init ==
    \E cp \in Copies :
       InitWith(cp, {PropertyRow(1, "Vancouver", 100)}, {Review(1, 1, 4)},
                {Reservation(1, 1, 1, 10)}, 1)

Next ==
    \E c \in 1..MaxCalls :
       \/ \E email \in Emails : getUserWithEmail(c, email)
       \/ getUserWithEmailSettle(c)
       \/ \E id \in 1..2 : getUserWithId(c, id)
       \/ getUserWithIdSettle(c)
       \/ \E user \in UserInputs : addUser(c, user)
       \/ addUserInsertSettle(c)
       \/ addUserSelectSettle(c)
       \/ getAllReservations(c, Num(1), Undefined)
       \/ getAllReservationsSettle(c)
       \/ \E options \in {Null, Obj(<<<<"city", Str("Vancouver")>>>>)} :
             getAllProperties(c, options, Undefined)
       \/ getAllPropertiesSettle(c)
       \/ addPropertyFresh(c, FormObject(Columns, {}))
       \/ addPropertySettle(c)

Spec == Init /\ [][Next]_vars

----------------------------------------------------------------------------
(* SpecQuery: one search, over every options object of at most MaxKeys     *)
(* keys, on the seeded tables.                                             *)

InitQuery == \E cp \in Copies : InitWith(cp, SeedProperties, SeedReviews, SeedReservations, 0)

NextQuery ==
    \/ /\ CanStart(1)
       /\ \E options \in WideOptions, limit \in Limits : getAllProperties(1, options, limit)
    \/ getAllPropertiesSettle(1)

SpecQuery == InitQuery /\ [][NextQuery]_vars

(* SpecSearch: one search or one listing of reservations, over tables of   *)
(* two reviews and two reservations.                                       *)

ReviewSeeds ==
    {{Review(i, f[i][1], f[i][2]) : i \in 1..2} : f \in [1..2 -> {1, 2} \X {2, 5}]}

ReservationSeeds ==
    {{Reservation(i, f[i][1], f[i][2], f[i][3]) : i \in 1..2} :
        f \in [1..2 -> {1, 2} \X {1, 2} \X {10, 20}]}

InitSearch ==
    \E cp \in Copies, rv \in ReviewSeeds, rs \in ReservationSeeds : InitWith(cp, SeedProperties, rv, rs, 0)

NextSearch ==
    \/ /\ CanStart(1)
       /\ \E options \in OneKeyOptions, limit \in Limits : getAllProperties(1, options, limit)
    \/ getAllPropertiesSettle(1)
    \/ \E guest_id \in {Num(1), Num(2)}, limit \in Limits : getAllReservations(1, guest_id, limit)
    \/ getAllReservationsSettle(1)

SpecSearch == InitSearch /\ [][NextSearch]_vars

(* SpecProps: a caller adding properties and searching, one call after the *)
(* other, properties.json holding up to MaxSeed properties.                *)

InitProps ==
    \E cp \in Copies, n \in 0..MaxSeed : InitWith(cp, SeedProperties, SeedReviews, SeedReservations, n)

Sequential(c) == \A d \in 1..(c - 1) : calls[d].pc = "done"

NextProps ==
    \E c \in 1..MaxAdds :
       \/ Sequential(c) /\ \E props \in FewFormObjects : addPropertyFresh(c, props)
       \/ Sequential(c) /\ \E o \in DOMAIN heap : addPropertyAgain(c, o)
       \/ addPropertySettle(c)
       \/ Sequential(c) /\ getAllProperties(c, Null, Undefined)
       \/ getAllPropertiesSettle(c)

SpecProps == InitProps /\ [][NextProps]_vars

(* SpecInsert: one addProperty, over the forms and key orders.             *)

NextInsert ==
    \/ /\ CanStart(1)
       /\ \E props \in FormObjects : addPropertyFresh(1, props)
    \/ addPropertySettle(1)

SpecInsert == InitQuery /\ [][NextInsert]_vars

----------------------------------------------------------------------------
(* Properties of the user functions and of the error handling, under Spec. *)

Done(c) == calls[c].pc = "done"
QueryFunctions ==
    {"getUserWithEmail", "getUserWithId", "addUser", "getAllReservations",
     "getAllProperties", "addProperty"}

(* C2: no promise of a function that queries the database is ever          *)
(* rejected; a call whose query the driver failed is fulfilled with        *)
(* undefined, and each such failure has been logged once.  This covers     *)
(* both queries of addUser.                                                *)
C2_FailuresSwallowed ==
    /\ \A c \in CallIds :
          /\ calls[c].out.state # "rejected"
          /\ (Done(c) /\ calls[c].failed) => calls[c].out = Fulfilled(Undefined)
    /\ Len(console) = Cardinality({c \in CallIds : calls[c].failed})

(* The SELECT of an addUser whose INSERT went through has failed, and so   *)
(* has the query of another function.                                      *)
C2_Witness ==
    \E c, d \in CallIds :
       /\ Done(c) /\ calls[c].fn = "addUser" /\ calls[c].ins # 0 /\ calls[c].failed
       /\ Done(d) /\ calls[d].fn \in QueryFunctions \ {"addUser"} /\ calls[d].failed

(* C3: the row addUser resolves with is the row its own INSERT created.    *)
C3_ReturnsOwnRow ==
    \A c \in CallIds :
       (Done(c) /\ calls[c].fn = "addUser" /\ calls[c].ins # 0
               /\ calls[c].out.value.t = "row")
          => calls[c].out.value.row.id = calls[c].ins

(* The two point lookups, and the rows of users that have a key.          *)
Lookups == {"getUserWithEmail", "getUserWithId"}

Matching(fn, key) ==
    IF fn = "getUserWithEmail" THEN {u \in users : u.email = key}
    ELSE {u \in users : u.id = key}

C5_LookupStep(c) ==
    (calls'[c] # calls[c] /\ calls'[c].fn \in Lookups)
       => /\ users' = users
          /\ (calls'[c].pc = "done" /\ ~calls'[c].failed)
                => LET M == Matching(calls[c].fn, calls[c].arg)
                       out == calls'[c].out
                   IN /\ out.state = "fulfilled"
                      /\ IF M = {} THEN out.value = Null
                         ELSE out.value.t = "row" /\ out.value.row \in M

(* C5: the step that settles a lookup leaves the users table as it is, and *)
(* when the driver answered, the promise is fulfilled with null if no row  *)
(* of the table has the key and with one row that has the key otherwise;   *)
(* the step that issues the lookup leaves the table alone too.             *)
C5_PointLookup == [][\A c \in CallIds : C5_LookupStep(c)]_vars

(* A lookup has found a user that a concurrent addUser inserted.           *)
C5_Witness ==
    \E c \in CallIds :
       Done(c) /\ calls[c].fn \in Lookups /\ calls[c].out.value.t = "row"

----------------------------------------------------------------------------
(* Properties of the search, under SpecQuery and SpecSearch.  They are     *)
(* about the getAllProperties of part_000 and part_001, which builds the   *)
(* WHERE clause.                                                           *)

SearchCall(c) == calls[c].fn = "getAllProperties" /\ copy # "database.js"

NonEmpty(kv) == kv[2] # Str("")
Supplied(options) == SelectSeq(Props(options), NonEmpty)

NonEmptyFilter(kv) == kv[2] # Str("") /\ kv[1] \in FilterKeys
SuppliedFilters(options) == SelectSeq(Props(options), NonEmptyFilter)

(* The condition a supplied field stands for: column, comparison and the   *)
(* value compared with.                                                    *)
ExpectedCond(kv) ==
    CASE kv[1] = "city" ->
            [col |-> "properties.city", op |-> "=", value |-> kv[2]]
      [] kv[1] = "minimum_price_per_night" ->
            [col |-> "properties.cost_per_night", op |-> ">=",
             value |-> Num(100 * ToNumber(kv[2].s))]
      [] kv[1] = "maximum_price_per_night" ->
            [col |-> "properties.cost_per_night", op |-> "<=",
             value |-> Num(100 * ToNumber(kv[2].s))]
      [] kv[1] = "minimum_rating" ->
            [col |-> "rating", op |-> ">=", value |-> kv[2]]

(* The i-th condition of query q says what e says.                         *)
Says(q, i, e) ==
    /\ q.where[i].col = e.col
    /\ q.where[i].op = e.op
    /\ q.where[i].ph \in 2..Len(q.values)
    /\ q.values[q.where[i].ph] = e.value

OverFilterKeys(options) == \A i \in 1..Len(Props(options)) : Props(options)[i][1] \in FilterKeys

(* C1: for an options object over the four filter fields (or null), the    *)
(* WHERE clause is the AND of one condition per field whose value is not   *)
(* '', in the order of the fields, each comparing its column with that     *)
(* field's value; a field that is '' gives no condition, and with no       *)
(* field supplied there is no WHERE clause.                                *)
C1_ConjunctionOfSupplied ==
    \A c \in CallIds :
       (SearchCall(c) /\ OverFilterKeys(calls[c].arg.options))
          => LET q == calls[c].query
                 given == Supplied(calls[c].arg.options)
             IN /\ Len(q.where) = Len(given)
                /\ \A i \in 1..Len(given) : Says(q, i, ExpectedCond(given[i]))

(* A search with two fields supplied and one left ''.                      *)
C1_Witness ==
    /\ SearchCall(1) /\ OverFilterKeys(calls[1].arg.options)
    /\ Len(Props(calls[1].arg.options)) = 3
    /\ Len(calls[1].query.where) = 2
    /\ Done(1) /\ calls[1].out.value.t = "rows"

(* C8: for every options object, whatever its keys, each placeholder of a  *)
(* condition names the position of values that holds that filter's value,  *)
(* $1 is the limit, and the placeholders are as many as the values.        *)
C8_PlaceholdersAligned ==
    \A c \in CallIds :
       SearchCall(c)
          => LET q == calls[c].query
                 given == SuppliedFilters(calls[c].arg.options)
             IN /\ q.values[1] = LimitOr(calls[c].arg.limit, DefaultLimit)
                /\ Len(q.where) = Len(given)
                /\ \A i \in 1..Len(given) : Says(q, i, ExpectedCond(given[i]))
                /\ Cardinality(Placeholders(q)) = Len(q.values)

ReviewsOf(id) == {r \in reviews : r.property_id = id}

(* C9: the average_rating of a returned property is the average over all   *)
(* the reviews of that property, whatever the filters.                     *)
C9_AverageOfAllReviews ==
    \A c \in CallIds :
       (SearchCall(c) /\ Done(c) /\ calls[c].out.value.t = "rows")
          => \A i \in 1..Len(calls[c].out.value.rows) :
                LET row == calls[c].out.value.rows[i]
                IN SameAvg(row.average_rating, Avg(ReviewsOf(row.property["id"])))

(* What C4 asks of the rows a call of getAllReservations resolved with.    *)
ReservationsOfGuest(c) ==
    LET rows == calls[c].out.value.rows
        guest == SqlInt(calls[c].arg.guest_id)
        limit == SqlInt(LimitOr(calls[c].arg.limit, DefaultLimit))
    IN /\ Len(rows) <= limit
       /\ \A i \in 1..Len(rows) :
             /\ {"id", "start_date", "average_rating"} \subseteq DOMAIN rows[i]
             /\ \E res \in reservations :
                   /\ res.id = rows[i].id
                   /\ res.guest_id = guest
                   /\ res.start_date = rows[i].start_date
                   /\ SameAvg(rows[i].average_rating, Avg(ReviewsOf(res.property_id)))
       /\ \A i, j \in 1..Len(rows) : i < j => rows[i].start_date <= rows[j].start_date

(* C4: the rows getAllReservations resolves with are reservations of the   *)
(* guest, each with the average rating of its property, in the order of    *)
(* start_date, at most limit of them (10 without a limit).                 *)
C4_ReservationsOfGuest ==
    \A c \in CallIds :
       (calls[c].fn = "getAllReservations" /\ Done(c) /\ calls[c].out.value.t = "rows")
          => ReservationsOfGuest(c)

(* The same, of the copies that query the reservations table.              *)
C4_InQueryingCopies == copy # "database.js" => C4_ReservationsOfGuest

----------------------------------------------------------------------------
(* Properties of addProperty, under SpecProps and SpecInsert.              *)

(* C6: a successful addProperty has put the property in the properties     *)
(* table, and resolves with that row and its id.                           *)
C6_StoredInDatabase ==
    \A c \in CallIds :
       (calls[c].fn = "addProperty" /\ Done(c) /\ calls[c].out.value # Undefined)
          => /\ calls[c].out.value.t = "row"
             /\ calls[c].out.value.row \in dbProperties
             /\ calls[c].ins # 0
             /\ calls[c].out.value.row["id"] = calls[c].ins

(* The same, of the copy that queries the database.                        *)
C6_InPart001 == copy = "part_001" => C6_StoredInDatabase

NumericFields ==
    {"number_of_bedrooms", "number_of_bathrooms", "parking_spaces", "cost_per_night"}

(* C7: the database-backed addProperty sends '0' for each numeric field    *)
(* that is '' and every other field as it is, whatever the order of keys.  *)
C7_BlankNumericsPatched ==
    \A c \in CallIds :
       (calls[c].fn = "addProperty" /\ copy = "part_001")
          => LET props == heap[calls[c].arg.ref]
                 sent == calls[c].query.values
             IN /\ Len(sent) = Len(props)
                /\ \A i \in 1..Len(props) :
                      sent[i] = IF props[i][1] \in NumericFields /\ props[i][2] = Str("")
                                THEN Str("0") ELSE props[i][2]

(* The same, of the objects whose keys are in the order of the comment.    *)
C7_InCommentOrder ==
    \A c \in CallIds :
       (calls[c].fn = "addProperty" /\ copy = "part_001"
            /\ Keys(heap[calls[c].arg.ref]) = Columns)
          => LET props == heap[calls[c].arg.ref]
                 sent == calls[c].query.values
             IN \A i \in 1..Len(props) :
                   sent[i] = IF props[i][1] \in NumericFields /\ props[i][2] = Str("")
                             THEN Str("0") ELSE props[i][2]

InMemory == copy # "part_001"

SeedIntact ==
    /\ \A k \in 1..seeded : properties[k] = k /\ heap[k] = JsonProperty(k)
    /\ dbProperties = SeedProperties /\ propSeq = Cardinality(SeedProperties)

(* C10 as stated: the i-th call assigned n + i, the property it returned   *)
(* carries that id, the properties stored before are as they were, and the *)
(* database is untouched.                                                  *)
C10_DistinctIdsKept ==
    InMemory =>
       /\ \A i \in 1..Len(added) :
             /\ added[i].id = seeded + i
             /\ properties[added[i].id] = added[i].ref
             /\ Get(heap[added[i].ref], "id") = Num(added[i].id)
       /\ SeedIntact

(* The last call that was passed object o.                                 *)
LastPassed(o) ==
    CHOOSE j \in 1..Len(added) :
       added[j].ref = o /\ \A k \in (j + 1)..Len(added) : added[k].ref # o

(* C10 amended: the i-th call assigned n + i and stored its object under   *)
(* that key, the keys in use are 1..n+calls, no key has been rebound, the  *)
(* objects of properties.json and the database are untouched, every call   *)
(* resolved with the object it was passed, and an object carries the id    *)
(* of the last call it was passed to.                                      *)
C10_DistinctIdsLastWins ==
    InMemory =>
       /\ \A i \in 1..Len(added) :
             /\ added[i].id = seeded + i
             /\ properties[added[i].id] = added[i].ref
             /\ Get(heap[added[i].ref], "id") = Num(added[LastPassed(added[i].ref)].id)
       /\ DOMAIN properties = 1..(seeded + Len(added))
       /\ SeedIntact
       /\ \A c \in CallIds :
             (Done(c) /\ calls[c].fn = "addProperty") => calls[c].out = Fulfilled(calls[c].arg)

(* Two properties added to a seeded object, then the first passed again.   *)
C10_Witness ==
    /\ InMemory /\ seeded >= 1 /\ Len(added) = 3
    /\ added[1].ref # added[2].ref /\ added[3].ref = added[1].ref

====
